---- MODULE Spec2Model ----
(***************************************************************************)
(* Model of the AWS Claude proxy route (src/proxy/aws.ts) and of the       *)
(* Google PaLM key serializer (src/shared/key-management/palm/             *)
(* serializer.ts).                                                         *)
(*                                                                         *)
(* Strings the code inspects character by character (model names) are      *)
(* sequences of one-character strings, so that String.includes and the     *)
(* regular expression of maybeReassignModel are computed, not assumed.     *)
(***************************************************************************)
EXTENDS Integers, Sequences, FiniteSets, TLC

VARIABLES
    clientModel,  \* the model string the client sent (req.body.model on entry)
    bodyModel,    \* req.body.model
    threw,        \* the request ended in an exception of the handler chain
    applied,      \* number of maybeReassignModel applications so far
    pc,           \* position of the request in the route's handler chain
    route,        \* the route of awsRouter the request was posted to
    action,       \* req.params.action (compatibility route only)
    messages,     \* req.body.messages
    inboundApi,   \* req.inboundApi
    outboundApi,  \* req.outboundApi
    upstream,     \* the upstream response body handed to awsResponseHandler
    res,          \* what was written to the client
    nextCalls,    \* calls of next() made by handleCompatibilityRequest
    kpc,          \* position of a credential in the persistence cycle
    poolKey,      \* a GooglePalmKey held in memory
    record,       \* a SerializedGooglePalmKey
    loadedKey     \* the GooglePalmKey deserialize returned

(***************************************************************************)
(* Bounds of the model.                                                    *)
(***************************************************************************)
MaxMajor == 4   \* one-digit major versions 1..MaxMajor are drawn
MaxApply == 2   \* applications of maybeReassignModel to one request body
MaxCount == 1   \* counters and timestamps of a credential range over 0..MaxCount

(***************************************************************************)
(* JavaScript string primitives.                                           *)
(***************************************************************************)
Digits == <<"0", "1", "2", "3", "4", "5", "6", "7", "8", "9">>
UpperCase == <<"A", "B", "C", "D", "E", "F", "G", "H", "I", "J", "K", "L", "M", "N", "O", "P", "Q", "R", "S", "T", "U", "V", "W", "X", "Y", "Z">>
LowerCase == <<"a", "b", "c", "d", "e", "f", "g", "h", "i", "j", "k", "l", "m", "n", "o", "p", "q", "r", "s", "t", "u", "v", "w", "x", "y", "z">>

IsDigit(c) == \E i \in 1..Len(Digits) : Digits[i] = c

\* Case folding of one character, as the regex flag /i compares characters.
Lower(c) ==
    IF \E i \in 1..Len(UpperCase) : UpperCase[i] = c
    THEN LowerCase[CHOOSE i \in 1..Len(UpperCase) : UpperCase[i] = c]
    ELSE c

\* s.charAt(i), 1-based; "" past the end.
At(s, i) == IF i >= 1 /\ i <= Len(s) THEN s[i] ELSE ""

\* String.prototype.includes (case-sensitive).
Includes(s, lit) ==
    \E i \in 1..(Len(s) - Len(lit) + 1) : SubSeq(s, i, i + Len(lit) - 1) = lit

\* The literal lit (given in lower case) occurs in s at position i, under /i.
LiteralAt(s, i, lit) ==
    /\ i + Len(lit) - 1 <= Len(s)
    /\ \A j \in 1..Len(lit) : Lower(s[i + j - 1]) = lit[j]

\* Length of the maximal run of digits of s starting at position i (\d* greedy).
RECURSIVE DigitRun(_, _)
DigitRun(s, i) == IF IsDigit(At(s, i)) THEN 1 + DigitRun(s, i + 1) ELSE 0

\* A capture group that did not take part in the match (JavaScript undefined).
Undefined == <<"undefined">>
\* String.prototype.match returned null.
NoMatch == [matched |-> FALSE]

(***************************************************************************)
(* Model ids written by the proxy.                                         *)
(***************************************************************************)
LATEST_AWS_V2_MINOR_VERSION == <<"1">>
AnthropicClaude == <<"a", "n", "t", "h", "r", "o", "p", "i", "c", ".", "c", "l", "a", "u", "d", "e">>
Claude3 == <<"c", "l", "a", "u", "d", "e", "-", "3">>
ClaudeV21 == <<"a", "n", "t", "h", "r", "o", "p", "i", "c", ".", "c", "l", "a", "u", "d", "e", "-", "v", "2", ":">> \o LATEST_AWS_V2_MINOR_VERSION
ClaudeInstantV1 == <<"a", "n", "t", "h", "r", "o", "p", "i", "c", ".", "c", "l", "a", "u", "d", "e", "-", "i", "n", "s", "t", "a", "n", "t", "-", "v", "1">>
ClaudeV1 == <<"a", "n", "t", "h", "r", "o", "p", "i", "c", ".", "c", "l", "a", "u", "d", "e", "-", "v", "1">>
ClaudeV2 == <<"a", "n", "t", "h", "r", "o", "p", "i", "c", ".", "c", "l", "a", "u", "d", "e", "-", "v", "2">>
Claude3Opus == <<"a", "n", "t", "h", "r", "o", "p", "i", "c", ".", "c", "l", "a", "u", "d", "e", "-", "3", "-", "o", "p", "u", "s", "-", "2", "0", "2", "4", "0", "2", "2", "9", "-", "v", "1", ":", "0">>
Claude3Haiku == <<"a", "n", "t", "h", "r", "o", "p", "i", "c", ".", "c", "l", "a", "u", "d", "e", "-", "3", "-", "h", "a", "i", "k", "u", "-", "2", "0", "2", "4", "0", "3", "0", "7", "-", "v", "1", ":", "0">>
Claude3Sonnet == <<"a", "n", "t", "h", "r", "o", "p", "i", "c", ".", "c", "l", "a", "u", "d", "e", "-", "3", "-", "s", "o", "n", "n", "e", "t", "-", "2", "0", "2", "4", "0", "2", "2", "9", "-", "v", "1", ":", "0">>
Claude35Sonnet == <<"a", "n", "t", "h", "r", "o", "p", "i", "c", ".", "c", "l", "a", "u", "d", "e", "-", "3", "-", "5", "-", "s", "o", "n", "n", "e", "t", "-", "2", "0", "2", "4", "0", "6", "2", "0", "-", "v", "1", ":", "0">>

(***************************************************************************)
(* model.match(pattern), where pattern is anchored at the start, has the   *)
(* flag i, and consists of nine groups in this order:                      *)
(*   1 (claude-)?   2 (instant-)?   3 (v)?   4 (\d+)   5 ([.-](\d{1}))?      *)
(*   7 (-\d+k)?    8 (-sonnet-|-opus-|-haiku-)?   9 zero or more digits     *)
(* (group 6 is the digit inside group 5).                                  *)
(* Every group but 4 is optional, so the greedy first choice of each group *)
(* succeeds as soon as a digit follows the optional prefixes, and giving a *)
(* matched prefix back never helps (the characters c, i and v are no       *)
(* digits): the match is the greedy left-to-right one.                     *)
(***************************************************************************)
\* Before the first group: position 1, no group has taken part yet.
MatchStart ==
    [i |-> 1, matched |-> TRUE, instant |-> Undefined, major |-> Undefined,
     minor |-> Undefined, ctx |-> Undefined, name |-> Undefined, rev |-> <<>>]

\* Each operator below lets one group consume what it can of s at m.i.
GroupClaude(s, m) ==
    IF LiteralAt(s, m.i, <<"c", "l", "a", "u", "d", "e", "-">>) THEN [m EXCEPT !.i = @ + 7] ELSE m

GroupInstant(s, m) ==
    IF LiteralAt(s, m.i, <<"i", "n", "s", "t", "a", "n", "t", "-">>)
    THEN [m EXCEPT !.i = @ + 8, !.instant = SubSeq(s, m.i, m.i + 7)]
    ELSE m

GroupV(s, m) ==
    IF LiteralAt(s, m.i, <<"v">>) THEN [m EXCEPT !.i = @ + 1] ELSE m

\* The only group that must match: without a digit here the match is null.
GroupMajor(s, m) ==
    IF IsDigit(At(s, m.i))
    THEN [m EXCEPT !.i = @ + DigitRun(s, m.i),
                   !.major = SubSeq(s, m.i, m.i + DigitRun(s, m.i) - 1)]
    ELSE NoMatch

GroupMinor(s, m) ==
    IF m.matched /\ At(s, m.i) \in {".", "-"} /\ IsDigit(At(s, m.i + 1))
    THEN [m EXCEPT !.i = @ + 2, !.minor = <<s[m.i + 1]>>]
    ELSE m

GroupCtx(s, m) ==
    IF /\ m.matched
       /\ At(s, m.i) = "-"
       /\ IsDigit(At(s, m.i + 1))
       /\ Lower(At(s, m.i + 1 + DigitRun(s, m.i + 1))) = "k"
    THEN [m EXCEPT !.i = @ + DigitRun(s, m.i + 1) + 2,
                   !.ctx = SubSeq(s, m.i, m.i + DigitRun(s, m.i + 1) + 1)]
    ELSE m

GroupName(s, m) ==
    IF ~m.matched THEN m
    ELSE IF LiteralAt(s, m.i, <<"-", "s", "o", "n", "n", "e", "t", "-">>)
        THEN [m EXCEPT !.i = @ + 8, !.name = SubSeq(s, m.i, m.i + 7)]
    ELSE IF LiteralAt(s, m.i, <<"-", "o", "p", "u", "s", "-">>)
        THEN [m EXCEPT !.i = @ + 6, !.name = SubSeq(s, m.i, m.i + 5)]
    ELSE IF LiteralAt(s, m.i, <<"-", "h", "a", "i", "k", "u", "-">>)
        THEN [m EXCEPT !.i = @ + 7, !.name = SubSeq(s, m.i, m.i + 6)]
    ELSE m

GroupRev(s, m) ==
    IF m.matched
    THEN [m EXCEPT !.i = @ + DigitRun(s, m.i),
                   !.rev = SubSeq(s, m.i, m.i + DigitRun(s, m.i) - 1)]
    ELSE m

pattern(s) ==
    GroupRev(s, GroupName(s, GroupCtx(s, GroupMinor(s, GroupMajor(s,
        GroupV(s, GroupInstant(s, GroupClaude(s, MatchStart))))))))

\* const ver = minor ? `${major}.${minor}` : major;
Version(match) ==
    IF match.minor # Undefined THEN match.major \o <<".">> \o match.minor
    ELSE match.major

\* The test of the first branch: model.includes("anthropic.claude").
\* (The narrower test "anthropic.claude-v" would miss the Claude 3 ids.)
IsAwsModelVersioned(model) == Includes(model, <<"a", "n", "t", "h", "r", "o", "p", "i", "c", ".", "c", "l", "a", "u", "d", "e", "-", "v">>)
IsAwsModel(model) == Includes(model, AnthropicClaude)

\* The switch on ver, for a match without the instant group.  The result is
\* the value left in req.body.model and whether the call threw.
Assigned(id) == [model |-> id, threw |-> FALSE]
Thrown(model) == [model |-> model, threw |-> TRUE]

\* (The switch with version 2 sent to the latest v2 revision instead.)
SwitchVerLatestV2(model, match) ==
    LET ver == Version(match) IN
    IF ver \in {<<"1">>, <<"1", ".", "0">>} THEN Assigned(ClaudeV1)
    ELSE IF ver \in {<<"2">>, <<"2", ".", "0">>} THEN Assigned(ClaudeV21)
    ELSE IF ver \in {<<"3">>, <<"3", ".", "0">>} THEN
        IF match.name = Undefined THEN Thrown(model)
        ELSE IF Includes(match.name, <<"o", "p", "u", "s">>) THEN Assigned(Claude3Opus)
        ELSE IF Includes(match.name, <<"h", "a", "i", "k", "u">>) THEN Assigned(Claude3Haiku)
        ELSE Assigned(Claude3Sonnet)
    ELSE IF ver = <<"3", ".", "5">> THEN Assigned(Claude35Sonnet)
    ELSE Assigned(ClaudeV21)

SwitchVer(model, match) ==
    LET ver == Version(match) IN
    IF ver \in {<<"1">>, <<"1", ".", "0">>} THEN Assigned(ClaudeV1)
    ELSE IF ver \in {<<"2">>, <<"2", ".", "0">>} THEN Assigned(ClaudeV2)
    ELSE IF ver \in {<<"3">>, <<"3", ".", "0">>} THEN
        \* name.includes(...) on an unmatched group is a TypeError
        IF match.name = Undefined THEN Thrown(model)
        ELSE IF Includes(match.name, <<"o", "p", "u", "s">>) THEN Assigned(Claude3Opus)
        ELSE IF Includes(match.name, <<"h", "a", "i", "k", "u">>) THEN Assigned(Claude3Haiku)
        ELSE Assigned(Claude3Sonnet)
    ELSE IF ver = <<"3", ".", "5">> THEN Assigned(Claude35Sonnet)
    ELSE Assigned(ClaudeV21)

maybeReassignModel(model) ==
    IF IsAwsModel(model) THEN Assigned(model)
    ELSE LET match == pattern(model) IN
         IF ~match.matched THEN Assigned(ClaudeV21)
         ELSE IF match.instant # Undefined THEN Assigned(ClaudeInstantV1)
         ELSE SwitchVer(model, match)

(***************************************************************************)
(* Client model strings.  A string is a concatenation of one segment per   *)
(* slot of the grammar below (wider than the pattern, so that unmatched    *)
(* and partly matched names occur), or one of the named examples.          *)
(***************************************************************************)
SegVendor  == {<<>>, <<"a", "n", "t", "h", "r", "o", "p", "i", "c", ".">>}
SegClaude  == {<<>>, <<"c", "l", "a", "u", "d", "e", "-">>, <<"C", "l", "a", "u", "d", "e", "-">>}
SegInstant == {<<>>, <<"i", "n", "s", "t", "a", "n", "t", "-">>}
SegV       == {<<>>, <<"v">>}
SegMajor   == {<<>>} \cup {<<Digits[d + 1]>> : d \in 1..MaxMajor}
SegMinor   == {<<>>, <<".", "0">>, <<".", "5">>, <<"-", "5">>, <<".", "1">>}
SegCtx     == {<<>>, <<"-", "1", "0", "0", "k">>}
SegFamily  == {<<>>, <<"-", "s", "o", "n", "n", "e", "t", "-">>, <<"-", "o", "p", "u", "s", "-">>, <<"-", "h", "a", "i", "k", "u", "-">>, <<"-", "o", "p", "u", "s">>, <<"-", "O", "p", "u", "s", "-">>}

\* model is one string of the grammar.
IsGrammarModel(model) ==
    \E vendor \in SegVendor, claude \in SegClaude, instant \in SegInstant,
       v \in SegV, major \in SegMajor, minor \in SegMinor, ctx \in SegCtx,
       family \in SegFamily :
        model = vendor \o claude \o instant \o v \o major \o minor \o ctx \o family

ExampleModels ==
    { <<"g", "p", "t", "-", "4">>, <<"c", "l", "a", "u", "d", "e", "-", "v", "2">>, <<"c", "l", "a", "u", "d", "e", "-", "3", "-", "o", "p", "u", "s", "-", "2", "0", "2", "4", "0", "2", "2", "9">>, <<"c", "l", "a", "u", "d", "e", "-", "i", "n", "s", "t", "a", "n", "t", "-", "1">>,
      <<"c", "l", "a", "u", "d", "e", "-", "3", "-", "5", "-", "s", "o", "n", "n", "e", "t", "-", "2", "0", "2", "4", "0", "6", "2", "0">>, <<"c", "l", "a", "u", "d", "e", "-", "3">>, <<"c", "l", "a", "u", "d", "e", "-", "3", ".", "0">>,
      <<"c", "l", "a", "u", "d", "e", "-", "3", "-", "o", "p", "u", "s">>, <<"v", "3", "-", "o", "p", "u", "s", "-", "2", "0", "2", "4">>, <<"3", "-", "5", "-", "s", "o", "n", "n", "e", "t", "-", "1">>, <<"c", "l", "a", "u", "d", "e", "-", "3", ".", "1">>,
      <<"c", "l", "a", "u", "d", "e", "-", "3", "0">>, <<"c", "l", "a", "u", "d", "e", "-", "v", "1", "-", "1", "0", "0", "k">>, <<"c", "l", "a", "u", "d", "e", "-", "2", "-", "1", "0", "0", "k">>, <<"c", "l", "a", "u", "d", "e", "-", "2", ".", "1">>,
      <<"c", "l", "a", "u", "d", "e", "-", "4">>, <<"A", "N", "T", "H", "R", "O", "P", "I", "C", ".", "C", "L", "A", "U", "D", "E", "-", "V", "2">>,
      ClaudeV21, ClaudeInstantV1, ClaudeV1, ClaudeV2, Claude3Opus, Claude3Haiku,
      Claude3Sonnet, Claude35Sonnet }

\* The request body arrives with one of the client model strings.
IsClientModel(model) == IsGrammarModel(model) \/ model \in ExampleModels

vars == <<clientModel, bodyModel, threw, applied, pc, route, action, messages,
          inboundApi, outboundApi, upstream, res, nextCalls,
          kpc, poolKey, record, loadedKey>>

reqVars == <<clientModel, bodyModel, threw, applied>>
proxyVars == <<pc, route, action, messages, inboundApi, outboundApi, upstream,
               res, nextCalls>>
keyVars == <<kpc, poolKey, record, loadedKey>>

NoResponse == [status |-> 0, model |-> Undefined, guidance |-> <<>>]
NoBody == [isObject |-> FALSE, model |-> Undefined]
NoKey == <<>>

\* No request is in the router.
ProxyIdle ==
    /\ pc = "idle"
    /\ route = "none"
    /\ action = "none"
    /\ messages = "absent"
    /\ inboundApi = "none"
    /\ outboundApi = "none"
    /\ upstream = NoBody
    /\ res = NoResponse
    /\ nextCalls = 0

\* No credential is being persisted.
KeyIdle ==
    /\ kpc = "idle"
    /\ poolKey = NoKey
    /\ record = NoKey
    /\ loadedKey = NoKey

(***************************************************************************)
(* Reconciliation on its own: the afterTransform hook applied to a request *)
(* body, and applied again to the body it left.                            *)
(***************************************************************************)
InitReassign ==
    /\ IsClientModel(clientModel)
    /\ bodyModel = clientModel
    /\ threw = FALSE
    /\ applied = 0
    /\ ProxyIdle
    /\ KeyIdle

Reassign ==
    /\ applied < MaxApply
    /\ ~threw
    /\ LET r == maybeReassignModel(bodyModel) IN
        /\ bodyModel' = r.model
        /\ threw' = r.threw
    /\ applied' = applied + 1
    /\ UNCHANGED <<clientModel, proxyVars, keyVars>>

NextReassign == Reassign

SpecReassign == InitReassign /\ [][NextReassign]_vars

(***************************************************************************)
(* The routes of awsRouter.                                                *)
(***************************************************************************)
StatusOK == 200
StatusBadRequest == 400
compatModel == Claude35Sonnet

\* Boolean(req.body.messages), for a messages field that is absent, null, an
\* empty array or a non-empty array: an array, empty or not, is truthy.
\* (Truthiness that takes an empty array for false.)
BooleanNonEmpty(v) == v = "list"
Boolean(v) == v \in {"emptyList", "list"}

\* What createPreprocessorMiddleware({inApi, outApi}, {afterTransform:
\* [maybeReassignModel]}) leaves: the two dialects on the request, the
\* reconciled model in the body, and the request handed to awsProxy unless
\* the hook threw (the request then ends with the middleware's error).
Preprocess(inApi, outApi) ==
    LET r == maybeReassignModel(bodyModel) IN
    /\ inboundApi' = inApi
    /\ outboundApi' = outApi
    /\ bodyModel' = r.model
    /\ threw' = r.threw
    /\ pc' = IF r.threw THEN "failed" ELSE "queued"
    /\ UNCHANGED <<clientModel, applied, route, action, messages, upstream, res,
                   nextCalls, keyVars>>

\* The test both routing handlers make: req.body.model?.includes("claude-3").
RoutesToChat(model) == Includes(model, Claude3)

preprocessAwsTextRequest ==
    /\ pc = "received"
    /\ route = "/v1/complete"
    /\ IF RoutesToChat(bodyModel)
       THEN Preprocess("anthropic-text", "anthropic-chat")
       ELSE Preprocess("anthropic-text", "anthropic-text")

preprocessOpenAICompatRequest ==
    /\ pc = "received"
    /\ route = "/v1/chat/completions"
    /\ IF RoutesToChat(bodyModel)
       THEN Preprocess("openai", "anthropic-chat")
       ELSE Preprocess("openai", "anthropic-text")

preprocessMessagesRequest ==
    /\ pc = "received"
    /\ route = "/v1/messages"
    /\ Preprocess("anthropic-chat", "anthropic-chat")

\* sendErrorToClient({statusCode: 400, obj: {...}}) as called below.
CompatibilityError ==
    [status |-> StatusBadRequest, model |-> Undefined,
     guidance |-> [requested_endpoint |-> "/aws/claude/sonnet",
                   correct_endpoint |-> "/aws/claude"]]

handleCompatibilityRequest ==
    /\ pc = "received"
    /\ route = "/v1/sonnet"
    /\ LET alreadyInChatFormat == Boolean(messages) IN
       IF action = "messages" \/ alreadyInChatFormat
       THEN /\ res' = CompatibilityError
            /\ pc' = "done"
            /\ UNCHANGED <<bodyModel, nextCalls>>
       ELSE /\ bodyModel' = compatModel
            /\ nextCalls' = nextCalls + 1
            /\ pc' = "next"
            /\ UNCHANGED res
    /\ UNCHANGED <<clientModel, threw, applied, route, action, messages,
                   inboundApi, outboundApi, upstream, keyVars>>

\* The preprocessor of the compatibility route, which has no afterTransform
\* hook: the model handleCompatibilityRequest set is not reconciled.
preprocessCompatRequest ==
    /\ pc = "next"
    /\ route = "/v1/sonnet"
    /\ inboundApi' = "anthropic-text"
    /\ outboundApi' = "anthropic-chat"
    /\ pc' = "queued"
    /\ UNCHANGED <<reqVars, route, action, messages, upstream, res, nextCalls,
                   keyVars>>

(***************************************************************************)
(* awsResponseHandler (non-streaming responses).                           *)
(***************************************************************************)
\* model: req.body.model of the chat.completion object built from a text
\* completion.
transformAwsTextResponseToOpenAI(awsBody, reqModel) == [model |-> reqModel]

\* The two conversions imported from ./anthropic map the fields of the
\* upstream body; the model field is carried over, absent when the upstream
\* gave none.
transformAnthropicChatResponseToOpenAI(body) == [model |-> body.model]
transformAnthropicChatResponseToAnthropicText(body) == [model |-> body.model]

\* switch (`${req.inboundApi}<-${req.outboundApi}`)
Transformed(inApi, outApi, body, reqModel) ==
    IF inApi = "openai" /\ outApi = "anthropic-text"
        THEN transformAwsTextResponseToOpenAI(body, reqModel)
    ELSE IF inApi = "openai" /\ outApi = "anthropic-chat"
        THEN transformAnthropicChatResponseToOpenAI(body)
    ELSE IF inApi = "anthropic-text" /\ outApi = "anthropic-chat"
        THEN transformAnthropicChatResponseToAnthropicText(body)
    ELSE [model |-> body.model]

\* if (!newBody.model && req.body.model) newBody.model = req.body.model;
\* (Without the backfill the body goes out as transformed.)
BackfillNever(newBody, reqModel) == newBody
Backfill(newBody, reqModel) ==
    IF newBody.model = Undefined /\ reqModel # Undefined /\ reqModel # <<>>
    THEN [newBody EXCEPT !.model = reqModel]
    ELSE newBody

\* The upstream's body either states the model, under the upstream's name for
\* it, or does not.
UpstreamNamed == <<"c", "l", "a", "u", "d", "e", "-", "u", "p", "s", "t", "r", "e", "a", "m">>
UpstreamBodies ==
    {[isObject |-> TRUE, model |-> m] : m \in {Undefined, UpstreamNamed}}
        \cup {NoBody}

awsResponseHandler ==
    /\ pc = "queued"
    /\ \E body \in UpstreamBodies :
        /\ upstream' = body
        /\ IF ~body.isObject
           THEN /\ threw' = TRUE
                /\ pc' = "failed"
                /\ UNCHANGED res
           ELSE LET newBody == Backfill(
                        Transformed(inboundApi, outboundApi, body, bodyModel),
                        bodyModel)
                IN  /\ res' = [status |-> StatusOK, model |-> newBody.model,
                               guidance |-> <<>>]
                    /\ pc' = "done"
                    /\ UNCHANGED threw
    /\ UNCHANGED <<clientModel, bodyModel, applied, route, action, messages,
                   inboundApi, outboundApi, nextCalls, keyVars>>

ReconciledRoutes == {"/v1/complete", "/v1/messages", "/v1/chat/completions"}

InitProxy ==
    /\ IsClientModel(clientModel)
    /\ bodyModel = clientModel
    /\ threw = FALSE
    /\ applied = 0
    /\ pc = "received"
    /\ \/ /\ route \in ReconciledRoutes
          /\ action = "none"
          /\ messages = "absent"
       \/ /\ route = "/v1/sonnet"
          /\ action \in {"complete", "messages"}
          /\ messages \in {"absent", "null", "emptyList", "list"}
    /\ inboundApi = "none"
    /\ outboundApi = "none"
    /\ upstream = NoBody
    /\ res = NoResponse
    /\ nextCalls = 0
    /\ KeyIdle

NextProxy ==
    \/ preprocessAwsTextRequest
    \/ preprocessOpenAICompatRequest
    \/ preprocessMessagesRequest
    \/ handleCompatibilityRequest
    \/ preprocessCompatRequest
    \/ awsResponseHandler

SpecProxy == InitProxy /\ [][NextProxy]_vars

(***************************************************************************)
(* GooglePalmKeySerializer.  A key and a serialized key are functions from *)
(* field names to values; a field a record does not hold is outside its    *)
(* domain.                                                                 *)
(***************************************************************************)
Keys == {"key-a", "key-b"}

\* crypto.createHash("sha256").update(key).digest("hex").slice(0, 8)
Sha256Hex8(key) ==
    CASE key = "key-a" -> "f10f7812"
      [] key = "key-b" -> "a30534a5"

Fingerprint(key) == "plm-" \o Sha256Hex8(key)

Flags == {"isDisabled", "isRevoked"}
Counters == {"promptCount", "lastUsed", "rateLimitedAt", "rateLimitedUntil",
             "lastChecked", "bisonTokens"}
KeyFields == {"key", "service", "modelFamilies", "hash"} \cup Flags \cup Counters

\* The values a field of a key can hold.
FieldValues(f) ==
    IF f = "key" THEN Keys
    ELSE IF f = "service" THEN {"google-palm"}
    ELSE IF f = "modelFamilies" THEN {<<"bison">>}
    ELSE IF f = "hash" THEN {"plm-00000000"}
    ELSE IF f \in Flags THEN BOOLEAN
    ELSE 0..MaxCount

\* { ...a, ...b }: the fields of both, b's value where both hold one.
Spread(a, b) ==
    [f \in DOMAIN a \cup DOMAIN b |-> IF f \in DOMAIN b THEN b[f] ELSE a[f]]

serialize(key) == [key |-> key.key]

\* const { key, ...rest } = serializedKey
Rest(serializedKey) ==
    [f \in DOMAIN serializedKey \ {"key"} |-> serializedKey[f]]

Defaults(key) ==
    [key |-> key,
     service |-> "google-palm",
     modelFamilies |-> <<"bison">>,
     isDisabled |-> FALSE,
     isRevoked |-> FALSE,
     promptCount |-> 0,
     lastUsed |-> 0,
     rateLimitedAt |-> 0,
     rateLimitedUntil |-> 0,
     hash |-> Fingerprint(key),
     lastChecked |-> 0,
     bisonTokens |-> 0]

\* (With the defaults spread last the record's own values are lost.)
deserializeDefaultsLast(serializedKey) ==
    Spread(Rest(serializedKey), Defaults(serializedKey.key))
deserialize(serializedKey) ==
    Spread(Defaults(serializedKey.key), Rest(serializedKey))

\* A key of the pool: its fingerprint was derived from the secret when it was
\* created; its flags, counters and timestamps are whatever use has made them.
InitPoolKey ==
    \E key \in Keys, isDisabled \in BOOLEAN, isRevoked \in BOOLEAN,
       promptCount \in 0..MaxCount, lastUsed \in 0..MaxCount,
       rateLimitedAt \in 0..MaxCount, rateLimitedUntil \in 0..MaxCount,
       lastChecked \in 0..MaxCount, bisonTokens \in 0..MaxCount :
        poolKey = [Defaults(key) EXCEPT
                     !.isDisabled = isDisabled, !.isRevoked = isRevoked,
                     !.promptCount = promptCount, !.lastUsed = lastUsed,
                     !.rateLimitedAt = rateLimitedAt,
                     !.rateLimitedUntil = rateLimitedUntil,
                     !.lastChecked = lastChecked, !.bisonTokens = bisonTokens]

\* A record read from the store: the key, and any of the other fields.  For
\* each other field the record holds no value (the empty set) or one value.
Options(f) == {{}} \cup {{v} : v \in FieldValues(f)}

RecordOf(key, opt) ==
    [f \in {"key"} \cup {g \in DOMAIN opt : opt[g] # {}} |->
        IF f = "key" THEN key ELSE CHOOSE v \in opt[f] : TRUE]

InitStoredRecord ==
    \E key \in Keys, service \in Options("service"),
       modelFamilies \in Options("modelFamilies"), hash \in Options("hash"),
       isDisabled \in Options("isDisabled"), isRevoked \in Options("isRevoked"),
       promptCount \in Options("promptCount"), lastUsed \in Options("lastUsed"),
       rateLimitedAt \in Options("rateLimitedAt"),
       rateLimitedUntil \in Options("rateLimitedUntil"),
       lastChecked \in Options("lastChecked"),
       bisonTokens \in Options("bisonTokens") :
        record = RecordOf(key,
                    [service |-> service, modelFamilies |-> modelFamilies,
                     hash |-> hash, isDisabled |-> isDisabled,
                     isRevoked |-> isRevoked, promptCount |-> promptCount,
                     lastUsed |-> lastUsed, rateLimitedAt |-> rateLimitedAt,
                     rateLimitedUntil |-> rateLimitedUntil,
                     lastChecked |-> lastChecked, bisonTokens |-> bisonTokens])

InitKey ==
    /\ \/ /\ kpc = "pool"
          /\ InitPoolKey
          /\ record = NoKey
       \/ /\ kpc = "stored"
          /\ poolKey = NoKey
          /\ InitStoredRecord
    /\ loadedKey = NoKey
    /\ clientModel = <<>>
    /\ bodyModel = <<>>
    /\ threw = FALSE
    /\ applied = 0
    /\ ProxyIdle

Serialize ==
    /\ kpc = "pool"
    /\ record' = serialize(poolKey)
    /\ kpc' = "stored"
    /\ UNCHANGED <<poolKey, loadedKey, reqVars, proxyVars>>

Deserialize ==
    /\ kpc = "stored"
    /\ loadedKey' = deserialize(record)
    /\ kpc' = "loaded"
    /\ UNCHANGED <<poolKey, record, reqVars, proxyVars>>

NextKey == Serialize \/ Deserialize

SpecKey == InitKey /\ [][NextKey]_vars

(***************************************************************************)
(* Properties of model reconciliation (under SpecReassign).                *)
(***************************************************************************)

\* C2: maybeReassignModel is total: after it ran on any client model string
\* it has not thrown, and req.body.model holds a canonical (native) model id.
C2_Total ==
    applied >= 1 => (~threw /\ Includes(bodyModel, <<"a", "n", "t", "h", "r", "o", "p", "i", "c", ".", "c", "l", "a", "u", "d", "e">>))

\* C3: maybeReassignModel is idempotent: applied again to a body it has
\* already processed without throwing, it leaves req.body.model unchanged and
\* does not throw.
C3_Idempotent ==
    [][(applied >= 1 /\ applied' = applied + 1)
            => (bodyModel' = bodyModel /\ ~threw')]_vars

\* A rewritten client model, reconciled and then reconciled again.
C3_Witness ==
    /\ applied = 2
    /\ ~threw
    /\ clientModel = <<"c", "l", "a", "u", "d", "e", "-", "3", "-", "o", "p", "u", "s", "-", "2", "0", "2", "4", "0", "2", "2", "9">>
    /\ bodyModel = <<"a", "n", "t", "h", "r", "o", "p", "i", "c", ".", "c", "l", "a", "u", "d", "e", "-", "3", "-", "o", "p", "u", "s", "-", "2", "0", "2", "4", "0", "2", "2", "9", "-", "v", "1", ":", "0">>

\* The groups the claims speak of, for a client model outside the native
\* pattern.
Parsed == pattern(clientModel)
NoInstant == Parsed.matched /\ Parsed.instant = Undefined
ParsedVersion == Version(Parsed)

\* C4: without the instant flag and with version "3" or "3.0" the result is
\* the opus id for the opus family, the haiku id for the haiku family and the
\* sonnet id in every other case, an unmatched family segment included.
C4_Version3Family ==
    (/\ applied = 1
     /\ ~Includes(clientModel, <<"a", "n", "t", "h", "r", "o", "p", "i", "c", ".", "c", "l", "a", "u", "d", "e">>)
     /\ NoInstant
     /\ ParsedVersion \in {<<"3">>, <<"3", ".", "0">>})
    => /\ ~threw
       /\ bodyModel =
            IF Parsed.name # Undefined /\ Includes(Parsed.name, <<"o", "p", "u", "s">>)
                THEN <<"a", "n", "t", "h", "r", "o", "p", "i", "c", ".", "c", "l", "a", "u", "d", "e", "-", "3", "-", "o", "p", "u", "s", "-", "2", "0", "2", "4", "0", "2", "2", "9", "-", "v", "1", ":", "0">>
            ELSE IF Parsed.name # Undefined /\ Includes(Parsed.name, <<"h", "a", "i", "k", "u">>)
                THEN <<"a", "n", "t", "h", "r", "o", "p", "i", "c", ".", "c", "l", "a", "u", "d", "e", "-", "3", "-", "h", "a", "i", "k", "u", "-", "2", "0", "2", "4", "0", "3", "0", "7", "-", "v", "1", ":", "0">>
            ELSE <<"a", "n", "t", "h", "r", "o", "p", "i", "c", ".", "c", "l", "a", "u", "d", "e", "-", "3", "-", "s", "o", "n", "n", "e", "t", "-", "2", "0", "2", "4", "0", "2", "2", "9", "-", "v", "1", ":", "0">>

\* C5: the decision table of maybeReassignModel: a native id is left as it
\* is; otherwise no match gives the v2:1 id, the instant flag the instant id
\* whatever the version, version 1 or 1.0 the v1 id, 2 or 2.0 the v2 id, 3.5
\* the sonnet 3.5 id whatever the family, and any version other than these
\* and 3 or 3.0 the v2:1 id; with the examples the specification gives.
C5_Table ==
    IF Includes(clientModel, <<"a", "n", "t", "h", "r", "o", "p", "i", "c", ".", "c", "l", "a", "u", "d", "e">>)
        THEN bodyModel = clientModel /\ ~threw
    ELSE IF ~Parsed.matched
        THEN bodyModel = <<"a", "n", "t", "h", "r", "o", "p", "i", "c", ".", "c", "l", "a", "u", "d", "e", "-", "v", "2", ":", "1">>
    ELSE IF Parsed.instant # Undefined
        THEN bodyModel = <<"a", "n", "t", "h", "r", "o", "p", "i", "c", ".", "c", "l", "a", "u", "d", "e", "-", "i", "n", "s", "t", "a", "n", "t", "-", "v", "1">>
    ELSE IF ParsedVersion \in {<<"1">>, <<"1", ".", "0">>}
        THEN bodyModel = <<"a", "n", "t", "h", "r", "o", "p", "i", "c", ".", "c", "l", "a", "u", "d", "e", "-", "v", "1">>
    ELSE IF ParsedVersion \in {<<"2">>, <<"2", ".", "0">>}
        THEN bodyModel = <<"a", "n", "t", "h", "r", "o", "p", "i", "c", ".", "c", "l", "a", "u", "d", "e", "-", "v", "2">>
    ELSE IF ParsedVersion = <<"3", ".", "5">>
        THEN bodyModel = <<"a", "n", "t", "h", "r", "o", "p", "i", "c", ".", "c", "l", "a", "u", "d", "e", "-", "3", "-", "5", "-", "s", "o", "n", "n", "e", "t", "-", "2", "0", "2", "4", "0", "6", "2", "0", "-", "v", "1", ":", "0">>
    ELSE IF ParsedVersion \in {<<"3">>, <<"3", ".", "0">>}
        THEN TRUE
    ELSE bodyModel = <<"a", "n", "t", "h", "r", "o", "p", "i", "c", ".", "c", "l", "a", "u", "d", "e", "-", "v", "2", ":", "1">>

C5_Examples ==
    /\ clientModel = <<"g", "p", "t", "-", "4">> => bodyModel = <<"a", "n", "t", "h", "r", "o", "p", "i", "c", ".", "c", "l", "a", "u", "d", "e", "-", "v", "2", ":", "1">>
    /\ clientModel = <<"c", "l", "a", "u", "d", "e", "-", "i", "n", "s", "t", "a", "n", "t", "-", "1">>
        => bodyModel = <<"a", "n", "t", "h", "r", "o", "p", "i", "c", ".", "c", "l", "a", "u", "d", "e", "-", "i", "n", "s", "t", "a", "n", "t", "-", "v", "1">>
    /\ clientModel = <<"c", "l", "a", "u", "d", "e", "-", "v", "2">> => bodyModel = <<"a", "n", "t", "h", "r", "o", "p", "i", "c", ".", "c", "l", "a", "u", "d", "e", "-", "v", "2">>
    /\ clientModel = <<"c", "l", "a", "u", "d", "e", "-", "3", "-", "5", "-", "s", "o", "n", "n", "e", "t", "-", "2", "0", "2", "4", "0", "6", "2", "0">>
        => bodyModel = <<"a", "n", "t", "h", "r", "o", "p", "i", "c", ".", "c", "l", "a", "u", "d", "e", "-", "3", "-", "5", "-", "s", "o", "n", "n", "e", "t", "-", "2", "0", "2", "4", "0", "6", "2", "0", "-", "v", "1", ":", "0">>
    /\ clientModel = <<"c", "l", "a", "u", "d", "e", "-", "2", ".", "1">> => bodyModel = <<"a", "n", "t", "h", "r", "o", "p", "i", "c", ".", "c", "l", "a", "u", "d", "e", "-", "v", "2", ":", "1">>
    /\ clientModel = <<"c", "l", "a", "u", "d", "e", "-", "4">> => bodyModel = <<"a", "n", "t", "h", "r", "o", "p", "i", "c", ".", "c", "l", "a", "u", "d", "e", "-", "v", "2", ":", "1">>

C5_DecisionTable == applied = 1 => (C5_Table /\ C5_Examples)

\* "claude-v2", reconciled once.
C5_Witness ==
    /\ applied = 1
    /\ clientModel = <<"c", "l", "a", "u", "d", "e", "-", "v", "2">>
    /\ bodyModel = <<"a", "n", "t", "h", "r", "o", "p", "i", "c", ".", "c", "l", "a", "u", "d", "e", "-", "v", "2">>

\* C10: a context-size hint after a major version 1 or 2 (no instant flag, no
\* minor version) does not change the result: the v1 id for major version 1,
\* the v2 id for major version 2.
C10_ContextHintIgnored ==
    applied = 1 =>
        \A claude \in SegClaude, v \in SegV :
            /\ clientModel = claude \o v \o <<"1", "-", "1", "0", "0", "k">>
                => bodyModel = <<"a", "n", "t", "h", "r", "o", "p", "i", "c", ".", "c", "l", "a", "u", "d", "e", "-", "v", "1">>
            /\ clientModel = claude \o v \o <<"2", "-", "1", "0", "0", "k">>
                => bodyModel = <<"a", "n", "t", "h", "r", "o", "p", "i", "c", ".", "c", "l", "a", "u", "d", "e", "-", "v", "2">>

(***************************************************************************)
(* Properties of the routes (under SpecProxy).                             *)
(***************************************************************************)

\* The request went through maybeReassignModel and was answered from an
\* upstream body that carries no model field.
AnsweredWithoutUpstreamModel ==
    /\ pc = "done"
    /\ route \in ReconciledRoutes
    /\ upstream.isObject
    /\ upstream.model = Undefined

C6_DialectFollowsResolvedModel ==
    (/\ route \in {"/v1/complete", "/v1/chat/completions"}
     /\ pc \in {"queued", "done"})
    => outboundApi =
         IF Includes(bodyModel, <<"a", "n", "t", "h", "r", "o", "p", "i", "c", ".", "c", "l", "a", "u", "d", "e", "-", "3">>)
         THEN "anthropic-chat" ELSE "anthropic-text"

\* C7: on the compatibility route handleCompatibilityRequest either answers
\* 400 with the endpoint guidance, never calls next and leaves the request
\* untouched (action "messages", or a message list in the body), or sends no
\* error, sets the model to the sonnet 3.5 id and calls next exactly once.
C7_CompatExactlyOne ==
    (route = "/v1/sonnet" /\ pc # "received")
    => IF action = "messages" \/ messages \in {"emptyList", "list"}
       THEN /\ res.status = 400
            /\ res.guidance = [requested_endpoint |-> "/aws/claude/sonnet",
                               correct_endpoint |-> "/aws/claude"]
            /\ nextCalls = 0
            /\ pc = "done"
            /\ bodyModel = clientModel
            /\ inboundApi = "none" /\ outboundApi = "none"
            /\ upstream = NoBody
       ELSE /\ res.status # 400
            /\ res.guidance = <<>>
            /\ nextCalls = 1
            /\ bodyModel = <<"a", "n", "t", "h", "r", "o", "p", "i", "c", ".", "c", "l", "a", "u", "d", "e", "-", "3", "-", "5", "-", "s", "o", "n", "n", "e", "t", "-", "2", "0", "2", "4", "0", "6", "2", "0", "-", "v", "1", ":", "0">>

\* An empty message list on the "complete" action is refused; and a legacy
\* body with another model is forced to sonnet 3.5 and passed on.
C7_WitnessRefused ==
    /\ route = "/v1/sonnet"
    /\ action = "complete"
    /\ messages = "emptyList"
    /\ pc = "done"
    /\ res.status = 400

(***************************************************************************)
(* Properties of the key serializer (under SpecKey).                       *)
(***************************************************************************)

\* C8: serialize followed by deserialize gives back the flags, the rate-limit
\* window, the usage counters and the fingerprint of the key.
C8_RoundTripPreserves ==
    (kpc = "loaded" /\ poolKey # NoKey)
    => \A f \in Flags \cup Counters \cup {"hash"} : loadedKey[f] = poolKey[f]

\* C9: deserialize keeps every field the record holds and fills every field
\* it omits with the default; the result holds every field of a key.
C9_Default(f) ==
    IF f = "service" THEN "google-palm"
    ELSE IF f = "modelFamilies" THEN <<"bison">>
    ELSE IF f = "hash" THEN "plm-" \o Sha256Hex8(record.key)
    ELSE IF f \in Flags THEN FALSE
    ELSE 0

C9_DeserializeFillsAndKeeps ==
    kpc = "loaded"
    => /\ DOMAIN loadedKey = KeyFields
       /\ loadedKey.key = record.key
       /\ \A f \in KeyFields \ {"key"} :
            loadedKey[f] = IF f \in DOMAIN record THEN record[f]
                           ELSE C9_Default(f)

\* A record holding a revoked flag and a prompt count but no hash.
C9_Witness ==
    /\ kpc = "loaded"
    /\ DOMAIN record = {"key", "isRevoked", "promptCount"}
    /\ record.isRevoked
    /\ record.promptCount = 1
    /\ loadedKey.isRevoked
    /\ loadedKey.promptCount = 1
    /\ loadedKey.hash = "plm-f10f7812"
    /\ loadedKey.bisonTokens = 0

====
